---- MODULE Spec2Model ----
(***************************************************************************)
(* A model of poetry_dynamic_versioning/__init__.py: the pattern           *)
(* substitution engine, the override / shallow-repository policy of        *)
(* _get_version, the configuration validator and the process-wide registry *)
(* driving _get_and_apply_version, _apply_version and _revert_version.     *)
(*                                                                         *)
(* Text is a sequence of one-character strings.  A substitution pattern's  *)
(* regular expression is modelled in the shape of the two default patterns *)
(* (src lines 184-187): an anchored prefix group (^KEY), a greedy run of    *)
(* characters outside a terminator set, and a suffix group matching one    *)
(* terminator: (^KEY)[^T]*([T]).                                           *)
(***************************************************************************)
EXTENDS Naturals, Integers, Sequences, FiniteSets, TLC

VARIABLES
    \* --- substitution engine runs (SpecSubst) ---
    s_pc, s_version, s_content, s_patterns, s_once, s_twice,
    \* --- one call of _get_version (SpecVersion) ---
    g_pc,        \* where the call stands
    g_name,      \* the project name argument (Nothing for None)
    g_env,       \* the two environment variables
    g_config,    \* config["fix-shallow-repository"], config["strict"]
    g_override,  \* what _get_override_version returned
    g_calls,     \* the strict flag of each Version.from_vcs call, in order
    g_first,     \* the first resolved version: its concerns and its vcs
    g_unshallow, \* how often "git fetch --unshallow" was run
    g_result,    \* the returned string, Nothing before the return
    \* --- one call of _validate_config (SpecValidate) ---
    v_pc, v_pyproject, v_result,
    \* --- the registry and the files (Spec) ---
    disk,      \* each path's content, Nothing for a file that does not exist
    manifest,  \* each project's manifest: tool.poetry.version and the enable toggle
    sections,  \* each manifest's plugin section (not changed by the program)
    projects,  \* _state.projects
    cli_mode,  \* _state.cli_mode
    last,      \* history: the last call
    base,      \* history: each project's files and version before its first apply
    applied,   \* history: the projects applied since the last revert
    \* --- one resolution of the pattern modes (SpecMode) ---
    p_pc,      \* where the resolution stands
    p_user,    \* the substitution section as the manifest gives it
    p_config,  \* what _get_config returned
    p_folders, \* what _FolderConfig.from_config returned
    p_result   \* per folder scope, what _substitute_version_in_text returned

g_vars ==
    <<g_pc, g_name, g_env, g_config, g_override, g_calls, g_first, g_unshallow,
      g_result>>

m_vars == <<disk, manifest, sections, projects, cli_mode, last, base, applied>>

v_vars == <<v_pc, v_pyproject, v_result>>

p_vars == <<p_pc, p_user, p_config, p_folders, p_result>>

s_vars == <<s_pc, s_version, s_content, s_patterns, s_once, s_twice>>

None == "None"

\* Optional values: Nothing for Python's None, Some(x) for a value
Nothing == <<>>
Some(x) == <<x>>

(***************************************************************************)
(* Characters and small text helpers                                       *)
(***************************************************************************)
DQ == "\""
NL == "\n"
SP == " "
Digits == {"0", "1", "2", "3", "4", "5", "6", "7", "8", "9"}

RECURSIVE Join(_, _)
\* sep.join(parts) for a sequence of texts
Join(parts, sep) ==
    IF parts = <<>> THEN <<>>
    ELSE IF Len(parts) = 1 THEN parts[1]
    ELSE parts[1] \o sep \o Join(Tail(parts), sep)

\* index of the first character of c at or after `from` that lies in T; 0 if none
FirstIn(c, from, T) ==
    LET hits == {j \in from..Len(c) : c[j] \in T}
    IN IF hits = {} THEN 0 ELSE CHOOSE j \in hits : \A k \in hits : j <= k

RECURSIVE SplitOn(_, _)
\* re.split / str.split on every character of the set T (empty pieces kept)
SplitOn(c, T) ==
    LET j == FirstIn(c, 1, T)
    IN IF j = 0 THEN <<c>>
       ELSE <<SubSeq(c, 1, j - 1)>> \o SplitOn(SubSeq(c, j + 1, Len(c)), T)

\* str.split(sep, 1): at most one split, at the first separator
SplitFirst(c, sep) ==
    LET j == FirstIn(c, 1, {sep})
    IN IF j = 0 THEN <<c>>
       ELSE <<SubSeq(c, 1, j - 1), SubSeq(c, j + 1, Len(c))>>

RECURSIVE Strip(_)
\* str.strip() for the whitespace of the model's alphabet
Strip(c) ==
    IF c = <<>> THEN c
    ELSE IF c[1] \in {SP, NL} THEN Strip(Tail(c))
    ELSE IF c[Len(c)] \in {SP, NL} THEN Strip(SubSeq(c, 1, Len(c) - 1))
    ELSE c

(***************************************************************************)
(* int(part) and str(int(part)), lines 492-495                             *)
(***************************************************************************)
\* whether int(part) succeeds: surrounding whitespace, an optional sign, digits
IsInt(part) ==
    LET t == Strip(part)
        body == IF t # <<>> /\ t[1] \in {"+", "-"} THEN Tail(t) ELSE t
    IN body # <<>> /\ \A i \in 1..Len(body) : body[i] \in Digits

RECURSIVE StripZeros(_)
StripZeros(ds) == IF Len(ds) > 1 /\ ds[1] = "0" THEN StripZeros(Tail(ds)) ELSE ds

\* str(int(part)) of a part for which IsInt holds
StrInt(part) ==
    LET t == Strip(part)
        neg == t[1] = "-"
        body == StripZeros(IF t[1] \in {"+", "-"} THEN Tail(t) ELSE t)
    IN IF neg /\ body # <<"0">> THEN <<"-">> \o body ELSE body

(***************************************************************************)
(* _substitute_version_in_text, lines 479-506                              *)
(***************************************************************************)
RECURSIVE TupleParts(_)
\* the loop of lines 489-495 over the split version
TupleParts(split) ==
    IF split = <<>> THEN <<>>
    ELSE LET part == split[1]
         IN (IF part = <<>> THEN <<>>
             ELSE IF IsInt(part) THEN <<StrInt(part)>>
             ELSE <<(<<DQ>> \o part \o <<DQ>>)>>)
            \o TupleParts(Tail(split))

\* a mutation: every part quoted, integers too
TupleInsertAllQuoted(version) ==
    LET split == SplitFirst(version, "+")
        pieces == SplitOn(split[1], {"-", "."}) \o Tail(split)
        RECURSIVE Q(_)
        Q(s) == IF s = <<>> THEN <<>>
                ELSE (IF s[1] = <<>> THEN <<>> ELSE <<(<<DQ>> \o s[1] \o <<DQ>>)>>)
                     \o Q(Tail(s))
        parts == Q(pieces)
        insert == Join(parts, <<",", SP>>)
    IN IF Len(parts) = 1 THEN insert \o <<",">> ELSE insert

\* the tuple-mode insert, lines 486-498
TupleInsert(version) ==
    LET split == SplitFirst(version, "+")
        pieces == SplitOn(split[1], {"-", "."}) \o Tail(split)
        parts == TupleParts(pieces)
        insert == Join(parts, <<",", SP>>)
    IN IF Len(parts) = 1 THEN insert \o <<",">> ELSE insert

\* the outcome of the ValueError of line 500 (no text holds this token)
Raise == <<"ValueError">>

\* lines 483-498: the text inserted for a pattern of mode "str" or "tuple"
InsertFor(pattern, version) ==
    IF pattern.mode = "str" THEN version ELSE TupleInsert(version)

\* ^ under re.MULTILINE: position i starts a line
LineStart(c, i) == i = 1 \/ c[i - 1] = NL

HasPrefixAt(c, i, key) ==
    /\ i + Len(key) - 1 <= Len(c)
    /\ \A k \in 1..Len(key) : c[i + k - 1] = key[k]

\* where the match of (^KEY)[^T]*([T]) starting at i ends; 0 if there is none
MatchEnd(value, c, i) ==
    IF LineStart(c, i) /\ HasPrefixAt(c, i, value.key)
    THEN FirstIn(c, i + Len(value.key), value.term)
    ELSE 0

RECURSIVE ReSubAppendFrom(_, _, _, _)
\* a mutation: the matched body is kept and the insert appended to it
ReSubAppendFrom(value, insert, c, i) ==
    IF i > Len(c) THEN <<>>
    ELSE LET j == MatchEnd(value, c, i)
         IN IF j > 0
            THEN SubSeq(c, i, j - 1) \o insert \o <<c[j]>>
                 \o ReSubAppendFrom(value, insert, c, j + 1)
            ELSE <<c[i]>> \o ReSubAppendFrom(value, insert, c, i + 1)

RECURSIVE ReSubFrom(_, _, _, _)
\* re.sub(value, r"\g<1>{}\g<2>".format(insert), c, flags=re.MULTILINE), lines
\* 502-504: leftmost non-overlapping matches, each replaced by group 1, the
\* insert and group 2
ReSubFrom(value, insert, c, i) ==
    IF i > Len(c) THEN <<>>
    ELSE LET j == MatchEnd(value, c, i)
         IN IF j > 0
            THEN value.key \o insert \o <<c[j]>> \o ReSubFrom(value, insert, c, j + 1)
            ELSE <<c[i]>> \o ReSubFrom(value, insert, c, i + 1)

RECURSIVE _substitute_version_in_text(_, _, _)
\* patterns applied in order, each over the previous one's output; the result
\* is Raise when a pattern's mode is neither "str" nor "tuple" (line 500)
_substitute_version_in_text(version, content, patterns) ==
    IF patterns = <<>> THEN content
    ELSE IF patterns[1].mode \notin {"str", "tuple"} THEN Raise
    ELSE _substitute_version_in_text(
             version,
             ReSubFrom(patterns[1].value, InsertFor(patterns[1], version), content, 1),
             Tail(patterns))

(***************************************************************************)
(* Runs of the substitution engine on bounded inputs                       *)
(***************************************************************************)
\* bounds of the enumerated inputs
MaxLines == 2
MaxVerLen == 2

\* the model's counterparts of the default patterns of lines 184-187
StrPattern == [value |-> [key |-> <<"v", "=", DQ>>, term |-> {DQ, "'"}], mode |-> "str"]
TuplePattern == [value |-> [key |-> <<"t", "=", "(">>, term |-> {")"}], mode |-> "tuple"]

PatternLists ==
    {<<>>, <<StrPattern>>, <<TuplePattern>>, <<StrPattern, TuplePattern>>,
     <<TuplePattern, StrPattern>>}

\* lines a file may hold: assignments the patterns match, an unterminated
\* one, one that is not at the start of its line
SLines ==
    {<<"v", "=", DQ, "0", DQ>>, <<"v", "=", DQ, "0">>,
     <<"t", "=", "(", "0", ")">>, <<"x", "v", "=", "'", "0", "'">>,
     <<"t", "=", "(">>}

SeqsUpTo(S, n) == UNION {[1..k -> S] : k \in 0..n}

SContents == {Join(ls, <<NL>>) : ls \in SeqsUpTo(SLines, MaxLines)}

V123 == <<"1", ".", "2", ".", "3">>
VRc == <<"1", ".", "2", ".", "3", "-", "r", "c", ".", "1", "+", "a", "b", "c">>
V1 == <<"1">>
SVerChars == {"1", ".", DQ, ")"}
SVersions ==
    {V123, VRc, V1, <<"1", "+">>, <<"1", ".", "a">>, <<"0", "0", "7", "+", "-", "5">>}
    \cup SeqsUpTo(SVerChars, MaxVerLen)

s_Init ==
    /\ s_pc = "start"
    /\ s_version \in SVersions
    /\ s_content \in SContents
    /\ s_patterns \in PatternLists
    /\ s_once = <<>>
    /\ s_twice = <<>>

s_Idle ==
    /\ s_pc = "idle"
    /\ s_version = <<>>
    /\ s_content = <<>>
    /\ s_patterns = <<>>
    /\ s_once = <<>>
    /\ s_twice = <<>>

\* one call of the engine on the input, and one more on its output
Substitute ==
    /\ s_pc = "start"
    /\ s_pc' = "done"
    /\ s_once' = _substitute_version_in_text(s_version, s_content, s_patterns)
    /\ s_twice' = _substitute_version_in_text(s_version, s_once', s_patterns)
    /\ UNCHANGED <<s_version, s_content, s_patterns>>
    /\ UNCHANGED <<g_vars, v_vars, m_vars, p_vars>>

(***************************************************************************)
(* _get_override_version, lines 345-363                                    *)
(***************************************************************************)
RECURSIVE OverrideLoop(_, _)
\* the loop of lines 352-357 over the comma-separated pairs
OverrideLoop(pairs, name) ==
    IF pairs = <<>> THEN Nothing
    ELSE LET pair == pairs[1]
             kv == SplitFirst(pair, "=")
         IN IF "=" \notin {pair[i] : i \in 1..Len(pair)}
            THEN OverrideLoop(Tail(pairs), name)
            ELSE IF Strip(kv[1]) = name THEN Some(Strip(kv[2]))
            ELSE OverrideLoop(Tail(pairs), name)

\* a mutation: the blanket bypass is consulted before the per-project pairs
OverrideBypassFirst(name, env) ==
    IF env.bypass # Nothing THEN env.bypass
    ELSE IF name # Nothing /\ env.override # Nothing
    THEN OverrideLoop(SplitOn(env.override[1], {","}), name[1])
    ELSE Nothing

\* name and the two variables are optional; the result is Nothing or Some(text)
_get_override_version(name, env) ==
    LET matched ==
            IF name # Nothing /\ env.override # Nothing
            THEN OverrideLoop(SplitOn(env.override[1], {","}), name[1])
            ELSE Nothing
    IN IF matched # Nothing THEN matched
       ELSE IF env.bypass # Nothing THEN env.bypass
       ELSE Nothing

(***************************************************************************)
(* _get_version, lines 380-453, with _run_cmd, lines 329-342               *)
(***************************************************************************)
\* bound of the enumerated override variable
MaxPairs == 2

\* pairs the override variable is built from: well-formed ones, one without
\* '=', padded with spaces, with a second '=', with an empty name or value
OPairs ==
    {<<"f", "=", "9">>, <<"b", "=", "1">>, <<"f">>, <<SP, "f", SP, "=", SP, "8", SP>>,
     <<"f", "=", "1", "=", "2">>, <<"=">>, <<>>, <<"f", "=">>}

OverrideValues == {Some(Join(ps, <<",">>)) : ps \in SeqsUpTo(OPairs, MaxPairs)}

BypassValues == {Some(<<"1", ".", "0">>), Some(<<>>)}

\* what Version.from_vcs may give back: a version with or without the
\* shallow-repository concern, detected as Git or as another VCS
VcsVersions == [shallow : BOOLEAN, git : BOOLEAN]
NoVersion == [shallow |-> FALSE, git |-> FALSE]

\* the version string a resolved version is serialized to (lines 409-451)
Serialized == <<"0", ".", "1">>

g_Init ==
    /\ g_pc = "start"
    /\ g_name \in {Nothing, Some(<<"f">>), Some(<<"b">>)}
    /\ g_env \in [override : {Nothing} \cup OverrideValues,
                  bypass : {Nothing} \cup BypassValues]
    /\ g_config \in [fix : BOOLEAN, strict : BOOLEAN]
    /\ g_override = Nothing
    /\ g_calls = <<>>
    /\ g_first = NoVersion
    /\ g_unshallow = 0
    /\ g_result = Nothing

g_Idle ==
    /\ g_pc = "idle"
    /\ g_name = Nothing
    /\ g_env = [override |-> Nothing, bypass |-> Nothing]
    /\ g_config = [fix |-> FALSE, strict |-> FALSE]
    /\ g_override = Nothing
    /\ g_calls = <<>>
    /\ g_first = NoVersion
    /\ g_unshallow = 0
    /\ g_result = Nothing

\* lines 381-383: an override is returned as it is
GetOverride ==
    /\ g_pc = "start"
    /\ g_override' = _get_override_version(g_name, g_env)
    /\ IF g_override' # Nothing
       THEN g_pc' = "done" /\ g_result' = g_override'
       ELSE g_pc' = "resolve" /\ g_result' = g_result
    /\ UNCHANGED <<g_name, g_env, g_config, g_calls, g_first, g_unshallow>>
    /\ UNCHANGED <<s_vars, v_vars, m_vars, p_vars>>

\* _get_version_from_dunamai, lines 366-377: the strict flag handed on
StrictArg(config, strict) == IF strict = Nothing THEN config.strict ELSE strict[1]

\* line 404: fix-shallow-repository is off, one resolution
ResolveOnce ==
    /\ g_pc = "resolve"
    /\ ~g_config.fix
    /\ g_calls' = Append(g_calls, StrictArg(g_config, Nothing))
    /\ \/ g_pc' = "serialize"
       \/ g_pc' = "raised"       \* the collaborator failed
    /\ UNCHANGED <<g_name, g_env, g_config, g_override, g_first, g_unshallow, g_result>>
    /\ UNCHANGED <<s_vars, v_vars, m_vars, p_vars>>

\* line 394: the first resolution, without strict
ResolveFirst ==
    /\ g_pc = "resolve"
    /\ g_config.fix
    /\ g_calls' = Append(g_calls, StrictArg(g_config, Some(FALSE)))
    /\ \/ \E v \in VcsVersions : g_first' = v /\ g_pc' = "inspect"
       \/ g_first' = g_first /\ g_pc' = "raised"
    /\ UNCHANGED <<g_name, g_env, g_config, g_override, g_unshallow, g_result>>
    /\ UNCHANGED <<s_vars, v_vars, m_vars, p_vars>>

\* a mutation: the detected VCS is not looked at
NeedsUnshallowAnyVcs(version) == version.shallow

\* line 397: Concern.ShallowRepository in version.concerns and version.vcs == Vcs.Git
NeedsUnshallow(version) == version.shallow /\ version.git

\* _run_cmd, lines 336-341: whether the return code raises
RunCmdRaises(returncode, codes) == codes # {} /\ returncode \notin codes

\* lines 397-399: the unshallow command, which may fail
Unshallow ==
    /\ g_pc = "inspect"
    /\ NeedsUnshallow(g_first)
    /\ g_unshallow' = g_unshallow + 1
    /\ \E returncode \in {0, 1, 128} :
           g_pc' = IF RunCmdRaises(returncode, {0}) THEN "raised" ELSE "retry"
    /\ UNCHANGED <<g_name, g_env, g_config, g_override, g_calls, g_first, g_result>>
    /\ UNCHANGED <<s_vars, v_vars, m_vars, p_vars>>

\* lines 395, 401: no unshallow; a retry only when strict is configured
SkipUnshallow ==
    /\ g_pc = "inspect"
    /\ ~NeedsUnshallow(g_first)
    /\ g_pc' = IF g_config.strict THEN "retry" ELSE "serialize"
    /\ UNCHANGED <<g_name, g_env, g_config, g_override, g_calls, g_first, g_unshallow,
                   g_result>>
    /\ UNCHANGED <<s_vars, v_vars, m_vars, p_vars>>

\* line 402: the second resolution, with the configured strict flag
Reresolve ==
    /\ g_pc = "retry"
    /\ g_calls' = Append(g_calls, StrictArg(g_config, Nothing))
    /\ \/ g_pc' = "serialize"
       \/ g_pc' = "raised"
    /\ UNCHANGED <<g_name, g_env, g_config, g_override, g_first, g_unshallow, g_result>>
    /\ UNCHANGED <<s_vars, v_vars, m_vars, p_vars>>

\* lines 406-453: the warnings and the serialized version
Serialize ==
    /\ g_pc = "serialize"
    /\ g_pc' = "done"
    /\ g_result' = Some(Serialized)
    /\ UNCHANGED <<g_name, g_env, g_config, g_override, g_calls, g_first, g_unshallow>>
    /\ UNCHANGED <<s_vars, v_vars, m_vars, p_vars>>

_get_version ==
    \/ GetOverride
    \/ ResolveOnce
    \/ ResolveFirst
    \/ Unshallow
    \/ SkipUnshallow
    \/ Reresolve
    \/ Serialize

(***************************************************************************)
(* _validate_config and _validate_config_section, lines 285-314            *)
(***************************************************************************)
\* A user mapping is a sequence of entries [k, v] with distinct keys, in the
\* mapping's own order; a value is a scalar or a mapping of entries.
Scalar == [kind |-> "scalar", items |-> <<>>]
Mapping(items) == [kind |-> "map", items |-> items]
Entry(k, v) == [k |-> k, v |-> v]

\* A default value, as _validate_config_section uses it: whether it is empty
\* (`not default`), the keys for which `key in default` holds, and for a
\* mapping the default of each key (default[key] of a string or a list raises).
\* None, False and [] are Falsy; the default of `files` is the empty mapping.
Falsy == [kind |-> "falsy", empty |-> TRUE, has |-> {}]
EmptyMap == [kind |-> "map", empty |-> TRUE, has |-> {}, child |-> <<>>]
\* "any" and "tags": `key in default` is the substring test
DefaultVcs == [kind |-> "str", empty |-> FALSE, has |-> {<<>>, <<"a">>, <<"a", "n">>, <<"a", "n", "y">>, <<"n">>, <<"n", "y">>, <<"y">>}]
DefaultTagDir == [kind |-> "str", empty |-> FALSE, has |-> {<<>>,
     <<"a">>,
     <<"a", "g">>,
     <<"a", "g", "s">>,
     <<"g">>,
     <<"g", "s">>,
     <<"s">>,
     <<"t">>,
     <<"t", "a">>,
     <<"t", "a", "g">>,
     <<"t", "a", "g", "s">>}]
\* the default substitution.files list: `key in default` is list membership
DefaultSubstitutionFiles ==
    [kind |-> "list", empty |-> FALSE,
     has |-> {<<"*", ".", "p", "y">>,
             <<"*", "/", "_", "_", "i", "n", "i", "t", "_", "_", ".", "p", "y">>,
             <<"*", "/", "_", "_", "v", "e", "r", "s", "i", "o", "n", "_", "_", ".", "p", "y">>,
             <<"*", "/", "_", "v", "e", "r", "s", "i", "o", "n", ".", "p", "y">>}]
\* the default substitution.patterns list holds a pattern string and a table:
\* no key of the model equals either
DefaultSubstitutionPatterns == [kind |-> "list", empty |-> FALSE, has |-> {}]

K_files == <<"f", "i", "l", "e", "s">>
K_patterns == <<"p", "a", "t", "t", "e", "r", "n", "s">>
K_folders == <<"f", "o", "l", "d", "e", "r", "s">>
K_substitution == <<"s", "u", "b", "s", "t", "i", "t", "u", "t", "i", "o", "n">>
K_vcs == <<"v", "c", "s">>
K_tag_dir == <<"t", "a", "g", "-", "d", "i", "r">>
K_enable == <<"e", "n", "a", "b", "l", "e">>
K_tool == <<"t", "o", "o", "l">>
K_section == <<"p", "o", "e", "t", "r", "y", "-", "d", "y", "n", "a", "m", "i", "c", "-", "v", "e", "r", "s", "i", "o", "n", "i", "n", "g">>

FalsyKeys ==
    {<<"e", "n", "a", "b", "l", "e">>,
     <<"d", "i", "r", "t", "y">>,
     <<"p", "a", "t", "t", "e", "r", "n">>,
     <<"l", "a", "t", "e", "s", "t", "-", "t", "a", "g">>,
     <<"s", "t", "y", "l", "e">>,
     <<"m", "e", "t", "a", "d", "a", "t", "a">>,
     <<"f", "o", "r", "m", "a", "t">>,
     <<"f", "o", "r", "m", "a", "t", "-", "j", "i", "n", "j", "a">>,
     <<"f", "o", "r", "m", "a", "t", "-", "j", "i", "n", "j", "a", "-", "i", "m", "p", "o", "r", "t", "s">>,
     <<"b", "u", "m", "p">>,
     <<"t", "a", "g", "g", "e", "d", "-", "m", "e", "t", "a", "d", "a", "t", "a">>,
     <<"f", "u", "l", "l", "-", "c", "o", "m", "m", "i", "t">>,
     <<"t", "a", "g", "-", "b", "r", "a", "n", "c", "h">>,
     <<"s", "t", "r", "i", "c", "t">>,
     <<"f", "i", "x", "-", "s", "h", "a", "l", "l", "o", "w", "-", "r", "e", "p", "o", "s", "i", "t", "o", "r", "y">>}

\* default["substitution"], lines 181-191
DefaultSubstitution ==
    [kind |-> "map", empty |-> FALSE,
     has |-> {K_files, K_patterns, K_folders},
     child |-> [k \in {K_files, K_patterns, K_folders} |->
                   IF k = K_files THEN DefaultSubstitutionFiles
                   ELSE IF k = K_patterns THEN DefaultSubstitutionPatterns
                   ELSE Falsy]]

\* _default_config()["tool"]["poetry-dynamic-versioning"], lines 176-205
DefaultSection ==
    LET keys == FalsyKeys \cup {K_vcs, K_tag_dir, K_substitution, K_files}
    IN [kind |-> "map", empty |-> FALSE,
        has |-> keys,
        child |-> [k \in keys |->
                      IF k = K_vcs THEN DefaultVcs
                      ELSE IF k = K_files THEN EmptyMap
                      ELSE IF k = K_tag_dir THEN DefaultTagDir
                      ELSE IF k = K_substitution THEN DefaultSubstitution
                      ELSE Falsy]]

\* line 309: a key holding a '.' is quoted
EscapedKey(key) ==
    IF "." \in {key[i] : i \in 1..Len(key)} THEN <<DQ>> \o key \o <<DQ>> ELSE key

\* line 310: "Unknown key: " + ".".join([*path, escaped_key])
UnknownKey(path, key) ==
    <<"Unknown key: ">> \o Join(Append(path, EscapedKey(key)), <<".">>)

Validated(errors, raised) == [errors |-> errors, raised |-> raised]

RECURSIVE SectionLoopAll(_, _, _)
\* a mutation: the check for an empty default is missing
SectionLoopAll(items, default, path) ==
    IF items = <<>> THEN Validated(<<>>, FALSE)
    ELSE LET key == items[1].k
             value == items[1].v
             here ==
                 IF key \notin default.has
                 THEN Validated(<<UnknownKey(path, key)>>, FALSE)
                 ELSE IF value.kind = "map"
                 THEN IF default.kind # "map" THEN Validated(<<>>, TRUE)
                      ELSE SectionLoopAll(value.items, default.child[key],
                                          Append(path, key))
                 ELSE Validated(<<>>, FALSE)
         IN IF here.raised THEN here
            ELSE LET rest == SectionLoopAll(Tail(items), default, path)
                 IN Validated(here.errors \o rest.errors, rest.raised)

RECURSIVE _validate_config_section(_, _, _)
RECURSIVE SectionLoop(_, _, _)
\* the loop of lines 307-312 over the items of the user mapping; raised is the
\* TypeError of default[key] on a default that is a string or a list
SectionLoop(items, default, path) ==
    IF items = <<>> THEN Validated(<<>>, FALSE)
    ELSE LET key == items[1].k
             value == items[1].v
             here ==
                 IF key \notin default.has
                 THEN Validated(<<UnknownKey(path, key)>>, FALSE)
                 ELSE IF value.kind = "map"
                 THEN IF default.kind # "map" THEN Validated(<<>>, TRUE)
                      ELSE _validate_config_section(value.items, default.child[key],
                                                    Append(path, key))
                 ELSE Validated(<<>>, FALSE)
         IN IF here.raised THEN here
            ELSE LET rest == SectionLoop(Tail(items), default, path)
                 IN Validated(here.errors \o rest.errors, rest.raised)

\* lines 299-314
_validate_config_section(items, default, path) ==
    IF default.empty THEN Validated(<<>>, FALSE)
    ELSE SectionLoop(items, default, path)

\* lines 292-296: config.get("tool", {}).get("poetry-dynamic-versioning", {})
_validate_config(pyproject) ==
    LET tool == IF pyproject.tool = Nothing THEN [section |-> Nothing]
                ELSE pyproject.tool[1]
        section == IF tool.section = Nothing THEN <<>> ELSE tool.section[1]
    IN _validate_config_section(section, DefaultSection, <<K_tool, K_section>>)

\* bound of the enumerated user sections: entries per section
MaxKeys == 2

\* entries a user section is built from: known and unknown keys, a key with a
\* '.', mappings under a known mapping, under `files` (whose default is {}),
\* under a key whose default is False, a string or a list, and under an
\* unknown key
VEntries ==
    {Entry(K_enable, Scalar),
     Entry(<<"b", "o", "g", "u", "s">>, Scalar),
     Entry(<<"a", ".", "b">>, Scalar),
     Entry(<<"e", "x", "t", "r", "a">>, Mapping(<<Entry(<<"x">>, Scalar)>>)),
     Entry(K_substitution, Mapping(<<Entry(K_files, Scalar), Entry(<<"o", "o", "p", "s">>, Scalar)>>)),
     Entry(K_substitution,
           Mapping(<<Entry(<<"o", "o", "p", "s">>, Mapping(<<Entry(<<"d", "e", "e", "p">>, Scalar)>>)),
                     Entry(<<"a", ".", "b">>, Scalar)>>)),
     Entry(K_substitution, Mapping(<<Entry(K_folders, Mapping(<<Entry(<<"x">>, Scalar)>>))>>)),
     Entry(K_files, Mapping(<<Entry(<<"a", ".", "p", "y">>, Mapping(<<Entry(<<"b", "a", "d">>, Scalar)>>))>>)),
     Entry(<<"s", "t", "y", "l", "e">>, Mapping(<<Entry(<<"x">>, Scalar)>>)),
     Entry(K_vcs, Mapping(<<Entry(<<"a">>, Scalar), Entry(<<"x">>, Scalar)>>)),
     Entry(K_vcs, Mapping(<<Entry(<<"a">>, Mapping(<<>>))>>)),
     Entry(K_substitution, Mapping(<<Entry(K_files, Mapping(<<Entry(<<"x">>, Scalar)>>))>>))}

DistinctKeys(items) ==
    \A i, j \in 1..Len(items) : i # j => items[i].k # items[j].k

VSections == {s \in SeqsUpTo(VEntries, MaxKeys) : DistinctKeys(s)}

VPyprojects ==
    {[tool |-> Nothing], [tool |-> Some([section |-> Nothing])]}
    \cup {[tool |-> Some([section |-> Some(s)])] : s \in VSections}

v_Init ==
    /\ v_pc = "start"
    /\ v_pyproject \in VPyprojects
    /\ v_result = Validated(<<>>, FALSE)

v_Idle ==
    /\ v_pc = "idle"
    /\ v_pyproject = [tool |-> Nothing]
    /\ v_result = Validated(<<>>, FALSE)

Validate ==
    /\ v_pc = "start"
    /\ v_pc' = "done"
    /\ v_result' = _validate_config(v_pyproject)
    /\ UNCHANGED v_pyproject
    /\ UNCHANGED <<s_vars, g_vars, m_vars, p_vars>>

(***************************************************************************)
(* The registry, the manifests and the files: _State, _ProjectState        *)
(* (lines 104-127), _get_config (252-273), _FolderConfig.from_config       *)
(* (154-169), _substitute_version (456-476), _apply_version (509-539),     *)
(* _get_and_apply_version (542-588) and _revert_version (591-619)          *)
(***************************************************************************)
\* The projects of the run.  A file is named by its project root and its
\* path below the root; each project's files live below its own root.
Names == {"foo", "bar"}
RelPaths == {"pkg/__init__.py", "pkg/_version.py"}
Paths == Names \X RelPaths

\* pyproject_path.parent.joinpath(file_name), lines 527 and 601
FullPath(root, rel) == <<root, rel>>

\* Path.glob on the model's tree: what a glob of a folder scope can match
GlobTable(folder, glob) ==
    IF folder[2] = "." /\ glob = "*/__init__.py" THEN {<<folder[1], "pkg/__init__.py">>}
    ELSE IF folder[2] = "." /\ glob = "*/_version.py" THEN {<<folder[1], "pkg/_version.py">>}
    ELSE IF folder[2] = "pkg" /\ glob = "*.py"
    THEN {<<folder[1], "pkg/__init__.py">>, <<folder[1], "pkg/_version.py">>}
    ELSE IF folder[2] = "pkg" /\ glob = "__init__.py" THEN {<<folder[1], "pkg/__init__.py">>}
    ELSE {}

\* line 465: folder.path.glob(file_glob) yields the matching files that exist
Glob(folder, glob, fs) == {f \in GlobTable(folder, glob) : fs[f] # Nothing}

\* the default file globs and patterns, lines 182-189
DefaultFiles == <<"*.py", "*/__init__.py", "*/__version__.py", "*/_version.py">>
DefaultPatterns ==
    <<[kind |-> "string", value |-> StrPattern.value, mode |-> "missing"],
      [kind |-> "table", value |-> TuplePattern.value, mode |-> "tuple"]>>

\* initialize(data, key), lines 253-255, for the mode of a pattern entry: a
\* table without the key gets None; a bare string is no dict and is left alone
InitializeMode(x) ==
    IF x.kind = "table" /\ x.mode = "missing" THEN [x EXCEPT !.mode = None] ELSE x

\* _get_config, lines 252-273, for the substitution and files sections: a
\* user value replaces the default (lists are not merged), absent optional
\* keys of folders and of files entries are None, and the mode of each
\* top-level pattern is initialized
_get_config(user) ==
    LET patterns == IF user.patterns = Nothing THEN DefaultPatterns ELSE user.patterns[1]
    IN [substitution |->
            [files |-> IF user.globs = Nothing THEN DefaultFiles ELSE user.globs[1],
             patterns |-> [i \in 1..Len(patterns) |-> InitializeMode(patterns[i])],
             folders |-> user.folders],
        files |-> user.files]

\* _SubPattern.from_config, lines 135-145
SubPatternFromConfig(config) ==
    [i \in 1..Len(config) |->
        IF config[i].kind = "string"
        THEN [value |-> config[i].value, mode |-> "str"]
        ELSE [value |-> config[i].value,
              mode |-> IF config[i].mode = "missing" THEN "str" ELSE config[i].mode]]

\* _FolderConfig.from_config, lines 154-169: the top-level scope, then the
\* extra folders in configured order, each inheriting what it does not give
FolderConfigFromConfig(config, root) ==
    LET files == config.substitution.files
        patterns == SubPatternFromConfig(config.substitution.patterns)
        main == [path |-> <<root, ".">>, files |-> files, patterns |-> patterns]
        folders == config.substitution.folders
        extra == [i \in 1..Len(folders) |->
                    [path |-> <<root, folders[i].path>>,
                     files |-> IF folders[i].files # Nothing
                               THEN folders[i].files[1] ELSE files,
                     patterns |-> IF folders[i].patterns # Nothing
                                  THEN SubPatternFromConfig(folders[i].patterns[1])
                                  ELSE patterns]]
    IN <<main>> \o extra

(***************************************************************************)
(* The mode of a configured pattern, from the manifest to the engine:      *)
(* _get_config (lines 252-273), _FolderConfig.from_config (154-169) and    *)
(* _substitute_version_in_text (479-506) on each folder scope's patterns   *)
(***************************************************************************)
\* A configured pattern is a bare string (kind "string") or a table with a
\* value and, unless its mode is "missing", a mode.
PatternValues == {StrPattern.value, TuplePattern.value}
PatternEntries ==
    {[kind |-> "string", value |-> v, mode |-> "missing"] : v \in PatternValues}
    \cup {[kind |-> "table", value |-> v, mode |-> md] :
            v \in PatternValues, md \in {"missing", "str", "tuple", "bogus"}}

\* the pattern lists a manifest may give: none, one or two entries
PatternConfigs ==
    {<<>>} \cup {<<e>> : e \in PatternEntries}
    \cup {<<e, f>> : e \in {x \in PatternEntries : x.value = StrPattern.value},
                     f \in {x \in PatternEntries : x.value = TuplePattern.value}}

\* the substitution sections: top-level patterns given or not, and no extra
\* folder or one, with its own patterns or not
ModeConfigs ==
    [patterns : {Nothing} \cup {Some(l) : l \in PatternConfigs},
     globs : {Nothing},
     folders : {<<>>}
               \cup {<<[path |-> "pkg", files |-> Nothing, patterns |-> ps]>> :
                       ps \in {Nothing} \cup {Some(<<e>>) : e \in PatternEntries}},
     files : {<<>>}]

\* the version and the content the scopes' patterns are applied to
ModeVersion == <<"1", ".", "2">>
ModeContent == <<"v", "=", DQ, "0", DQ, NL, "t", "=", "(", "0", ")">>

PlainModeConfig ==
    [patterns |-> Nothing, globs |-> Nothing, folders |-> <<>>, files |-> <<>>]

NoConfig ==
    [substitution |-> [files |-> <<>>, patterns |-> <<>>, folders |-> <<>>],
     files |-> <<>>]

p_Init ==
    /\ p_pc = "start"
    /\ p_user \in ModeConfigs
    /\ p_config = NoConfig
    /\ p_folders = <<>>
    /\ p_result = <<>>

p_Idle ==
    /\ p_pc = "idle"
    /\ p_user = PlainModeConfig
    /\ p_config = NoConfig
    /\ p_folders = <<>>
    /\ p_result = <<>>

\* config = _get_config(pyproject)
GetConfig ==
    /\ p_pc = "start"
    /\ p_pc' = "config"
    /\ p_config' = _get_config(p_user)
    /\ UNCHANGED <<p_user, p_folders, p_result>>
    /\ UNCHANGED <<s_vars, g_vars, v_vars, m_vars>>

\* _FolderConfig.from_config(config, pyproject_path.parent), lines 535-539
FromConfig ==
    /\ p_pc = "config"
    /\ p_pc' = "folders"
    /\ p_folders' = FolderConfigFromConfig(p_config, "foo")
    /\ UNCHANGED <<p_user, p_config, p_result>>
    /\ UNCHANGED <<s_vars, g_vars, v_vars, m_vars>>

\* the call of line 473 with each scope's patterns
SubstituteScopes ==
    /\ p_pc = "folders"
    /\ p_pc' = "done"
    /\ p_result' = [i \in 1..Len(p_folders) |->
                       _substitute_version_in_text(
                           ModeVersion, ModeContent, p_folders[i].patterns)]
    /\ UNCHANGED <<p_user, p_config, p_folders>>
    /\ UNCHANGED <<s_vars, g_vars, v_vars, m_vars>>

(***************************************************************************)
(* textwrap.dedent, line 532                                               *)
(***************************************************************************)
IsBlank(line) == \A i \in 1..Len(line) : line[i] = SP

\* the number of leading spaces of a line
Indent(line) ==
    LET others == {i \in 1..Len(line) : line[i] # SP}
    IN IF others = {} THEN Len(line)
       ELSE (CHOOSE i \in others : \A k \in others : i <= k) - 1

\* lines of spaces only become empty; the common margin of the others is cut
Dedent(text) ==
    LET lines == SplitOn(text, {NL})
        full == {i \in 1..Len(lines) : ~IsBlank(lines[i])}
        margin == IF full = {} THEN 0
                  ELSE Indent(lines[CHOOSE i \in full :
                                        \A k \in full : Indent(lines[i]) <= Indent(lines[k])])
    IN Join([i \in 1..Len(lines) |->
                IF IsBlank(lines[i]) THEN <<>>
                ELSE SubSeq(lines[i], margin + 1, Len(lines[i]))],
            <<NL>>)

(***************************************************************************)
(* _substitute_version, lines 456-476                                      *)
(***************************************************************************)
\* A state of the program: st.fs maps each path to Nothing or Some(content),
\* st.manifest each project to its [version, enable], st.projects each name
\* to Nothing or Some(_ProjectState), st.config each project to the plugin
\* section of its manifest.

RECURSIVE GlobsOf(_, _, _)
\* lines 463-465: all matches of one folder's globs
GlobsOf(folder, globs, fs) ==
    IF globs = <<>> THEN {}
    ELSE Glob(folder.path, globs[1], fs) \cup GlobsOf(folder, Tail(globs), fs)

RECURSIVE ClaimFilesLastWins(_, _, _, _)
\* a mutation: a file claimed before is claimed again by a later folder
ClaimFilesLastWins(folders, i, fs, files) ==
    IF i > Len(folders) THEN files
    ELSE LET matches == GlobsOf(folders[i], folders[i].files, fs)
         IN ClaimFilesLastWins(folders, i + 1, fs, [m \in matches |-> i] @@ files)

RECURSIVE ClaimFiles(_, _, _, _)
\* lines 461-469: the files mapping, from each matched file to the (index of
\* the) first folder that matched it
ClaimFiles(folders, i, fs, files) ==
    IF i > Len(folders) THEN files
    ELSE LET matches == GlobsOf(folders[i], folders[i].files, fs)
         IN ClaimFiles(folders, i + 1, fs, files @@ [m \in matches |-> i])

\* a mutation: the substitution is repeated by every call
SubstituteRepeats(name, version, folders, st) ==
    LET files == ClaimFiles(folders, 1, st.fs, <<>>)
        new(f) == _substitute_version_in_text(
                      version, st.fs[f][1], folders[files[f]].patterns)
        changed == {f \in DOMAIN files : new(f) # st.fs[f][1]}
    IN [st EXCEPT
           !.projects[name][1].substitutions =
               [f \in changed |-> st.fs[f][1]] @@ st.projects[name][1].substitutions,
           !.fs = [f \in DOMAIN st.fs |->
                      IF f \in changed THEN Some(new(f)) ELSE st.fs[f]]]

\* lines 471-476, for every claimed file at once (the files are distinct, so
\* the order of the loop does not matter)
_substitute_version(name, version, folders, st) ==
    IF DOMAIN st.projects[name][1].substitutions # {}
    THEN st          \* "Already ran; don't need to repeat."
    ELSE LET files == ClaimFiles(folders, 1, st.fs, <<>>)
             new(f) == _substitute_version_in_text(
                           version, st.fs[f][1], folders[files[f]].patterns)
             changed == {f \in DOMAIN files : new(f) # st.fs[f][1]}
         IN [st EXCEPT
                !.projects[name][1].substitutions = [f \in changed |-> st.fs[f][1]],
                !.fs = [f \in DOMAIN st.fs |->
                           IF f \in changed THEN Some(new(f)) ELSE st.fs[f]]]

(***************************************************************************)
(* _apply_version, lines 509-539                                           *)
(***************************************************************************)
\* a mutation: the initial content is written only to a file that has none
WriteInitialIfAbsent(name, config, st) ==
    [st EXCEPT !.fs =
        [f \in DOMAIN st.fs |->
            IF /\ f[1] = name
               /\ f[2] \in DOMAIN config.files
               /\ config.files[f[2]].initial # Nothing
               /\ st.fs[f] = Nothing
            THEN Some(Dedent(config.files[f[2]].initial[1]))
            ELSE st.fs[f]]]

\* lines 526-533: every configured file with initial-content is written
WriteInitial(name, config, st) ==
    [st EXCEPT !.fs =
        [f \in DOMAIN st.fs |->
            IF /\ f[1] = name
               /\ f[2] \in DOMAIN config.files
               /\ config.files[f[2]].initial # Nothing
            THEN Some(Dedent(config.files[f[2]].initial[1]))
            ELSE st.fs[f]]]

\* lines 512-522: the version, and the enable toggle unless retain or CLI mode
WriteManifest(name, version, retain, st) ==
    [st EXCEPT !.manifest[name] =
        [version |-> version,
         enable |-> IF ~retain /\ ~st.cli_mode THEN FALSE ELSE @.enable]]

_apply_version(name, version, config, retain, st) ==
    LET st1 == WriteManifest(name, version, retain, st)
        st2 == WriteInitial(name, config, st1)
    IN _substitute_version(name, version, FolderConfigFromConfig(config, name), st2)

(***************************************************************************)
(* _get_and_apply_version, lines 542-588                                   *)
(***************************************************************************)
\* a mutation: the registry is not consulted
NeverRegistered(name, registry) == FALSE

\* lines 553 and 567: name in _state.projects
Registered(name, registry) == registry[name] # Nothing

\* line 584: _ProjectState(pyproject_path, original, version)
ProjectState(path, original, version) ==
    [path |-> path, original_version |-> original, version |-> version,
     substitutions |-> <<>>]

\* The call for the project `name`: the name and the original version are
\* the caller's or read from the manifest (lines 564-566), the same values
\* either way; `version` is what _get_version returned.
_get_and_apply_version(name, version, retain, force, io, st) ==
    IF Registered(name, st.projects) THEN st
    ELSE LET config == _get_config(st.config[name])
             original == st.manifest[name].version
         IN IF ~st.manifest[name].enable /\ ~force THEN st
            ELSE LET st1 == [st EXCEPT !.projects[name] =
                                Some(ProjectState(name, original, version))]
                 IN IF io THEN _apply_version(name, version, config, retain, st1)
                    ELSE st1

(***************************************************************************)
(* _revert_version, lines 591-619                                          *)
(***************************************************************************)
\* a mutation: no file is taken as persistent
NoPersistent(name, config) == {}

\* lines 598-601: the configured files marked persistent-substitution
Persistent(name, config) ==
    {FullPath(name, rel) : rel \in {r \in DOMAIN config.files : config.files[r].persistent}}

\* lines 593-617 for one project
RevertProject(name, retain, st) ==
    LET state == st.projects[name][1]
        persistent == Persistent(state.path, _get_config(st.config[name]))
        restored == {f \in DOMAIN state.substitutions : f \notin persistent}
    IN [st EXCEPT
           !.fs = [f \in DOMAIN st.fs |->
                      IF f \in restored THEN Some(state.substitutions[f]) ELSE st.fs[f]],
           !.manifest[name] =
               [version |-> state.original_version,
                enable |-> IF ~retain /\ ~st.cli_mode THEN TRUE ELSE @.enable]]

RECURSIVE RevertAll(_, _, _)
\* the loop of line 592 over the registered projects (their files are
\* disjoint, so the order does not matter)
RevertAll(names, retain, st) ==
    IF names = {} THEN st
    ELSE LET n == CHOOSE n \in names : TRUE
         IN RevertAll(names \ {n}, retain, RevertProject(n, retain, st))

\* line 619: _state.projects.clear()
_revert_version(retain, st) ==
    LET registered == {n \in Names : st.projects[n] # Nothing}
        st1 == RevertAll(registered, retain, st)
    IN [st1 EXCEPT !.projects = [n \in Names |-> Nothing]]

(***************************************************************************)
(* The run: calls of the three entry points in any order                   *)
(***************************************************************************)
\* what _get_version may return, and the version the manifests start with
MVersions == {<<"1">>, <<"2">>}
OriginalVersion == <<"0">>

\* the initial-content of the configured extra file, indented as in a
\* multi-line TOML string, and contents the files may start with
InitialContent == <<SP, SP, "v", "=", DQ, "0", DQ>>
InitContents ==
    {<<"v", "=", DQ, "0", DQ, NL, "t", "=", "(", "0", ")">>, <<"v", "=", DQ, "1", DQ>>}
VersionFileContents == {Nothing, Some(<<"v", "=", DQ, "5", DQ>>)}

\* the substitution.folders and files sections a manifest may configure
FolderMenus ==
    {<<>>,
     <<[path |-> "pkg", files |-> Some(<<"*.py">>),
        patterns |-> Some(<<[kind |-> "table", value |-> TuplePattern.value,
                             mode |-> "tuple"]>>)]>>,
     <<[path |-> "pkg", files |-> Some(<<"__init__.py">>), patterns |-> Nothing]>>}

FileMenus ==
    {<<>>}
    \cup {[r \in {"pkg/_version.py"} |-> [initial |-> i, persistent |-> p]] :
            i \in {Nothing, Some(InitialContent)}, p \in BOOLEAN}

UserConfigs ==
    [patterns : {Nothing}, globs : {Nothing}, folders : FolderMenus, files : FileMenus]

\* the second project substitutes nothing
PlainConfig ==
    [patterns |-> Nothing, globs |-> Nothing, folders |-> <<>>, files |-> <<>>]

St ==
    [fs |-> disk, manifest |-> manifest, projects |-> projects, config |-> sections,
     cli_mode |-> cli_mode]

\* the files of a project, as they are
FilesOf(name) == [r \in RelPaths |-> disk[<<name, r>>]]

NoSnapshot == [fs |-> [r \in RelPaths |-> Nothing], version |-> OriginalVersion]

Init ==
    /\ cli_mode \in BOOLEAN
    /\ sections \in {c \in [Names -> UserConfigs \cup {PlainConfig}] :
                     c["foo"] \in UserConfigs /\ c["bar"] = PlainConfig}
    /\ manifest = [n \in Names |-> [version |-> OriginalVersion, enable |-> TRUE]]
    /\ disk \in {f \in [Paths -> {Nothing} \cup {Some(c) : c \in InitContents}
                               \cup VersionFileContents] :
                 /\ f[<<"foo", "pkg/__init__.py">>] \in {Some(c) : c \in InitContents}
                 /\ f[<<"foo", "pkg/_version.py">>] \in VersionFileContents
                 /\ \A r \in RelPaths : f[<<"bar", r>>] = Nothing}
    /\ projects = [n \in Names |-> Nothing]
    /\ last = [op |-> "init", name |-> "foo", version |-> OriginalVersion]
    /\ base = [n \in Names |-> NoSnapshot]
    /\ applied = {}
    /\ s_Idle /\ g_Idle /\ v_Idle /\ p_Idle

Others == <<s_vars, g_vars, v_vars, p_vars>>

\* the program's variables after a call that leads to the state st
Becomes(st) ==
    /\ disk' = st.fs
    /\ manifest' = st.manifest
    /\ projects' = st.projects
    /\ UNCHANGED <<sections, cli_mode, Others>>

\* history: the files and the manifest version of a project as its first
\* apply since the last revert found them; a revert keeps the snapshots of
\* the projects it reverted until the next call
Snapshot(name, applies) ==
    LET now == IF last.op = "revert" THEN [n \in Names |-> NoSnapshot] ELSE base
    IN /\ applied' = IF applies THEN applied \cup {name} ELSE applied
       /\ base' = IF applies /\ name \notin applied
                  THEN [now EXCEPT ![name] =
                           [fs |-> FilesOf(name), version |-> manifest[name].version]]
                  ELSE now

\* the arguments of the calls: every combination for the first project, the
\* plugin's plain call for the second
VersionsFor(name) == IF name = "foo" THEN MVersions ELSE {<<"1">>}
FlagsFor(name) == IF name = "foo" THEN BOOLEAN ELSE {FALSE}
IoFor(name) == IF name = "foo" THEN BOOLEAN ELSE {TRUE}

GetAndApply ==
    \E name \in Names :
    \E version \in VersionsFor(name), retain, force \in FlagsFor(name), io \in IoFor(name) :
        LET st == _get_and_apply_version(name, version, retain, force, io, St)
            applies == io /\ projects[name] = Nothing /\ st.projects[name] # Nothing
        IN /\ Becomes(st)
           /\ Snapshot(name, applies)
           /\ last' = [op |-> IF applies THEN "apply"
                              ELSE IF projects[name] # Nothing THEN "again"
                              ELSE "get",
                       name |-> name,
                       version |-> IF applies THEN version ELSE OriginalVersion]

\* a call of _apply_version for a registered project
Apply ==
    \E name \in Names :
    \E version \in VersionsFor(name), retain \in FlagsFor(name) :
        /\ projects[name] # Nothing
        /\ Becomes(_apply_version(name, version, _get_config(sections[name]), retain, St))
        /\ Snapshot(name, TRUE)
        /\ last' = [op |-> "apply", name |-> name, version |-> version]

Revert ==
    \E retain \in BOOLEAN :
        /\ Becomes(_revert_version(retain, St))
        /\ applied' = {}
        /\ base' = [n \in Names |-> IF n \in applied THEN base[n] ELSE NoSnapshot]
        /\ last' = [op |-> "revert", name |-> "foo", version |-> OriginalVersion]

Next == GetAndApply \/ Apply \/ Revert

m_Idle ==
    /\ cli_mode = FALSE
    /\ sections = [n \in Names |-> PlainConfig]
    /\ manifest = [n \in Names |-> [version |-> OriginalVersion, enable |-> TRUE]]
    /\ disk = [f \in Paths |-> Nothing]
    /\ projects = [n \in Names |-> Nothing]
    /\ last = [op |-> "idle", name |-> "foo", version |-> OriginalVersion]
    /\ base = [n \in Names |-> NoSnapshot]
    /\ applied = {}

vars == <<s_vars, g_vars, v_vars, m_vars, p_vars>>

Spec == Init /\ [][Next]_vars


InitSubst == s_Init /\ g_Idle /\ v_Idle /\ m_Idle /\ p_Idle
NextSubst == Substitute
SpecSubst == InitSubst /\ [][NextSubst]_vars

InitVersion == g_Init /\ s_Idle /\ v_Idle /\ m_Idle /\ p_Idle
SpecVersion == InitVersion /\ [][_get_version]_vars

InitValidate == v_Init /\ s_Idle /\ g_Idle /\ m_Idle /\ p_Idle
NextValidate == Validate
SpecValidate == InitValidate /\ [][NextValidate]_vars

InitMode == p_Init /\ s_Idle /\ g_Idle /\ v_Idle /\ m_Idle
NextMode == GetConfig \/ FromConfig \/ SubstituteScopes
SpecMode == InitMode /\ [][NextMode]_vars

(***************************************************************************)
(* C5: tuple-mode encoding                                                 *)
(***************************************************************************)
TupleFile(body) == <<"t", "=", "(">> \o body \o <<")">>

TupleRun(v) ==
    /\ s_pc = "done"
    /\ s_patterns = <<TuplePattern>>
    /\ s_content = TupleFile(<<"0">>)
    /\ s_version = v

\* C5 as stated: "1.2.3" gives `1, 2, 3`, "1.2.3-rc.1+abc" gives
\* `1, 2, 3, "rc", "1", "abc"` and "1" gives `1,`
C5_AsStated ==
    /\ TupleRun(V123) => s_once = TupleFile(<<"1", ",", SP, "2", ",", SP, "3">>)
    /\ TupleRun(VRc) =>
           s_once = TupleFile(<<"1", ",", SP, "2", ",", SP, "3", ",", SP,
                                DQ, "r", "c", DQ, ",", SP, DQ, "1", DQ, ",", SP,
                                DQ, "a", "b", "c", DQ>>)
    /\ TupleRun(V1) => s_once = TupleFile(<<"1", ",">>)

\* C5 (amended): the tuple body for "1.2.3" is `1, 2, 3`; for "1.2.3-rc.1+abc"
\* it is `1, 2, 3, "rc", 1, "abc"` (every token that parses as an integer is a
\* bare integer, the "1" after "rc" too); for "1" it is `1,`; and the part
\* after the first '+' contributes one trailing element only when it is not
\* empty ("1+" gives `1,`).
C5_TupleEncoding ==
    /\ TupleRun(V123) => s_once = TupleFile(<<"1", ",", SP, "2", ",", SP, "3">>)
    /\ TupleRun(VRc) =>
           s_once = TupleFile(<<"1", ",", SP, "2", ",", SP, "3", ",", SP,
                                DQ, "r", "c", DQ, ",", SP, "1", ",", SP,
                                DQ, "a", "b", "c", DQ>>)
    /\ TupleRun(V1) => s_once = TupleFile(<<"1", ",">>)
    /\ TupleRun(<<"1", "+">>) => s_once = TupleFile(<<"1", ",">>)

C5_Witness == TupleRun(VRc) /\ s_once # s_content

(***************************************************************************)
(* C6: idempotent substitution                                             *)
(***************************************************************************)
\* C6 as stated: for every version, content and pattern list a second
\* substitution with the same version changes nothing
C6_AsStated == s_pc = "done" => s_twice = s_once

Chars(c) == {c[i] : i \in 1..Len(c)}

\* no text a pattern of the list inserts holds a terminator of a pattern of
\* the list, or a line break
CleanInserts(version, patterns) ==
    \A i, j \in 1..Len(patterns) :
        Chars(InsertFor(patterns[i], version))
            \cap (patterns[j].value.term \cup {NL}) = {}

\* C6 (amended): for patterns of the default shape, substitution is idempotent
\* whenever no text inserted by a pattern of the list (the version in string
\* mode, the tuple body in tuple mode) contains a terminator character of any
\* pattern of the list or a line break.
C6_Idempotent ==
    (s_pc = "done" /\ CleanInserts(s_version, s_patterns)) => s_twice = s_once

C6_Witness ==
    /\ s_pc = "done"
    /\ CleanInserts(s_version, s_patterns)
    /\ Len(s_patterns) = 2
    /\ s_once # s_content

(***************************************************************************)
(* C4: override precedence                                                 *)
(***************************************************************************)
OPairsOf(env) == SplitOn(env.override[1], {","})

\* the pairs with a '=' whose stripped name is the project's
MatchingPairs(name, env) ==
    IF name = Nothing \/ env.override = Nothing THEN {}
    ELSE {i \in 1..Len(OPairsOf(env)) :
            LET pair == OPairsOf(env)[i]
                eq == FirstIn(pair, 1, {"="})
            IN eq > 0 /\ Strip(SubSeq(pair, 1, eq - 1)) = name[1]}

ValueOfPair(pair) == Strip(SubSeq(pair, FirstIn(pair, 1, {"="}) + 1, Len(pair)))

ExpectedOverride(name, env) ==
    LET m == MatchingPairs(name, env)
    IN IF m # {}
       THEN Some(ValueOfPair(OPairsOf(env)[CHOOSE i \in m : \A k \in m : i <= k]))
       ELSE env.bypass

\* C4: _get_override_version returns the value of the first well-formed pair
\* whose name is the project's, else the raw bypass value, else nothing; and
\* whenever a value is returned _get_version returns it with no VCS call.
C4_OverridePrecedence ==
    g_pc \notin {"idle", "start"} =>
        /\ g_override = ExpectedOverride(g_name, g_env)
        /\ g_override # Nothing =>
               /\ g_pc = "done"
               /\ g_result = g_override
               /\ g_calls = <<>>
               /\ g_unshallow = 0

\* a matched per-project pair and a bypass are both set, and a later pair
\* names the project again
C4_Witness ==
    /\ g_pc = "done"
    /\ g_env.bypass = Some(<<"1", ".", "0">>)
    /\ Cardinality(MatchingPairs(g_name, g_env)) = 2
    /\ g_result = Some(<<"9">>)
    /\ g_env.override = Some(<<"f", "=", "9", ",", "f", "=", "1", "=", "2">>)

VSection ==
    IF v_pyproject.tool = Nothing \/ v_pyproject.tool[1].section = Nothing THEN <<>>
    ELSE v_pyproject.tool[1].section[1]

RECURSIVE KeyPaths(_, _)
\* every key of a user mapping, at every level, as the path of keys to it
KeyPaths(items, path) ==
    UNION {{Append(path, items[i].k)}
           \cup (IF items[i].v.kind = "map"
                 THEN KeyPaths(items[i].v.items, Append(path, items[i].k))
                 ELSE {})
           : i \in 1..Len(items)}

RECURSIVE DefaultAt(_, _)
\* the default value a path of keys leads to, Nothing when the default schema
\* has no such level
DefaultAt(default, path) ==
    IF path = <<>> THEN Some(default)
    ELSE IF default.kind = "map" /\ path[1] \in default.has
    THEN DefaultAt(default.child[path[1]], Tail(path))
    ELSE Nothing

Parent(path) == SubSeq(path, 1, Len(path) - 1)
LastKey(path) == path[Len(path)]

\* the levels of the default schema that are mappings (an empty one too)
IsLevel(d) == d # Nothing /\ d[1].kind = "map"

\* the key is absent from the default schema at its level
AbsentAsStated(path) ==
    LET d == DefaultAt(DefaultSection, Parent(path))
    IN IsLevel(d) /\ LastKey(path) \notin d[1].has

\* the key is absent from a default mapping that is not empty
AbsentFromNonEmpty(path) ==
    LET d == DefaultAt(DefaultSection, Parent(path))
    IN IsLevel(d) /\ ~d[1].empty /\ LastKey(path) \notin d[1].has

ErrorOf(path) == UnknownKey(<<K_tool, K_section>> \o Parent(path), LastKey(path))

Count(seq, x) == Cardinality({i \in 1..Len(seq) : seq[i] = x})

\* mappings stand only under keys whose default is a mapping or empty
\* (not under a string or a list default such as vcs or substitution.files)
Conforming(items) ==
    \A p \in KeyPaths(items, <<>>) :
        LET d == DefaultAt(DefaultSection, Parent(p))
        IN d = Nothing \/ d[1].kind \in {"map", "falsy"}

FoldersOf(name) == FolderConfigFromConfig(_get_config(sections[name]), name)

\* the scopes one of whose globs matches the file f in the tree fs
ScopesOf(name, f, fs) ==
    {i \in 1..Len(FoldersOf(name)) :
        f \in GlobsOf(FoldersOf(name)[i], FoldersOf(name)[i].files, fs)}

FirstScope(name, f, fs) ==
    CHOOSE i \in ScopesOf(name, f, fs) : \A k \in ScopesOf(name, f, fs) : i <= k

\* the configured extra files of a project that have initial-content, and
\* those marked persistent-substitution
ExtraInitial(name) ==
    {r \in DOMAIN sections[name].files : sections[name].files[r].initial # Nothing}
InitialOf(name, r) == Dedent(sections[name].files[r].initial[1])
PersistentOf(name) ==
    {<<name, r>> : r \in {q \in DOMAIN sections[name].files :
                             sections[name].files[q].persistent}}

\* an apply call for the project finds an empty substitution record
Substitutes(name) ==
    projects[name] = Nothing \/ DOMAIN projects[name][1].substitutions = {}

\* the tree once every extra file with initial-content holds that content
AtSubstitution(name) ==
    [f \in Paths |-> IF f[1] = name /\ f[2] \in ExtraInitial(name)
                     THEN Some(InitialOf(name, f[2])) ELSE disk[f]]

\* what the substitution of the scope that claims f makes of a content
SubstitutedBy(name, f, fs, version, content) ==
    IF ScopesOf(name, f, fs) = {} THEN content
    ELSE _substitute_version_in_text(
             version, content, FoldersOf(name)[FirstScope(name, f, fs)].patterns)

\* An apply call of this step leaves the file f as it must when the
\* initial-content step left f with `content`: substituted and recorded if
\* the call substitutes, as it is otherwise.
LeftAs(name, f, content, version) ==
    IF Substitutes(name)
    THEN LET fs == [AtSubstitution(name) EXCEPT ![f] = Some(content)]
             new == SubstitutedBy(name, f, fs, version, content)
         IN /\ disk'[f] = Some(new)
            /\ (f \in DOMAIN projects'[name][1].substitutions) <=> (new # content)
            /\ new # content => projects'[name][1].substitutions[f] = content
    ELSE disk'[f] = Some(content)

InitFile == <<"foo", "pkg/__init__.py">>
VersionFile == <<"foo", "pkg/_version.py">>
TwoLines == <<"v", "=", DQ, "0", DQ, NL, "t", "=", "(", "0", ")">>

(***************************************************************************)
(* C1: round trip of apply and revert                                      *)
(***************************************************************************)
\* C1 as stated: revert leaves every file that apply substituted (and that
\* existed before apply) with its pre-apply content, a persistent file with
\* the content apply wrote, and the manifest version with its pre-apply value
C1_AsStated ==
    [][last'.op = "revert" =>
        \A n \in applied :
            /\ manifest'[n].version = base[n].version
            /\ \A f \in DOMAIN projects[n][1].substitutions :
                   base[n].fs[f[2]] # Nothing =>
                       disk'[f] = IF f \in PersistentOf(n) THEN disk[f]
                                  ELSE base[n].fs[f[2]]]_vars

\* C1 (amended): after apply (once or more) and revert, the manifest version
\* is the pre-apply one; a substituted file marked persistent keeps the
\* content it had before revert; any other substituted file holds the content
\* the substitution read: the dedented initial-content for a configured extra
\* file that has one (whatever the file held before apply), the pre-apply
\* content otherwise.
C1_RoundTrip ==
    [][last'.op = "revert" =>
        \A n \in applied :
            /\ manifest'[n].version = base[n].version
            /\ \A f \in DOMAIN projects[n][1].substitutions :
                   disk'[f] = IF f \in PersistentOf(n) THEN disk[f]
                              ELSE IF f[2] \in ExtraInitial(n)
                              THEN Some(InitialOf(n, f[2]))
                              ELSE base[n].fs[f[2]]]_vars

\* a revert has put back a file that every version of the run changes, and
\* the manifest version
C1_Witness ==
    /\ last.op = "revert"
    /\ base["foo"].fs["pkg/__init__.py"] = Some(TwoLines)
    /\ base["foo"].version = OriginalVersion
    /\ disk[InitFile] = Some(TwoLines)
    /\ manifest["foo"].version = OriginalVersion

(***************************************************************************)
(* C2: apply without repeat                                                *)
(***************************************************************************)
\* C2 as stated: a second apply for a project changes the manifest's version
\* field and nothing else
C2_AsStated ==
    [][(last'.op = "apply" /\ last'.name \in applied) =>
        /\ disk' = disk
        /\ projects' = projects
        /\ manifest' = [manifest EXCEPT ![last'.name].version = last'.version]]_vars

\* C2 (amended): an apply call that finds the project's substitution record
\* non-empty substitutes and records nothing; it sets the manifest version,
\* leaves the enable toggle or sets it to false (never in CLI mode), and
\* writes again the dedented initial-content of every configured extra file
\* that has one; it writes no other file.
C2_NoRepeat ==
    [][(last'.op = "apply" /\ last'.name \in applied /\ ~Substitutes(last'.name)) =>
        /\ projects' = projects
        /\ disk' = AtSubstitution(last'.name)
        /\ manifest'[last'.name].version = last'.version
        /\ manifest'[last'.name].enable \in {manifest[last'.name].enable, FALSE}
        /\ cli_mode => manifest'[last'.name].enable = manifest[last'.name].enable
        /\ \A n \in Names \ {last'.name} : manifest'[n] = manifest[n]]_vars

\* a second apply, with version 2, has left the file as the first, with
\* version 1, substituted it
C2_Witness ==
    /\ last = [op |-> "apply", name |-> "foo", version |-> <<"2">>]
    /\ manifest["foo"].version = <<"2">>
    /\ projects["foo"] # Nothing
    /\ InitFile \in DOMAIN projects["foo"][1].substitutions
    /\ projects["foo"][1].substitutions[InitFile] = TwoLines
    /\ disk[InitFile] =
           Some(_substitute_version_in_text(
                    <<"1">>, TwoLines, SubPatternFromConfig(DefaultPatterns)))

(***************************************************************************)
(* C3: duplicate-file suppression                                          *)
(***************************************************************************)
\* C3: a file matched by the globs of two or more folder scopes is
\* substituted with the patterns of the first of them only, and the record
\* holds it once, with the content the substitution read
C3_FirstScopeWins ==
    [][(last'.op = "apply" /\ Substitutes(last'.name)) =>
        \A f \in Paths :
            Cardinality(ScopesOf(last'.name, f, AtSubstitution(last'.name))) >= 2 =>
                LeftAs(last'.name, f, AtSubstitution(last'.name)[f][1], last'.version)]_vars

\* a file claimed by the top-level scope and by an extra folder with other
\* patterns has been substituted, and the folder's patterns alone would have
\* left another content
C3_Witness ==
    /\ last.op = "apply"
    /\ last.name = "foo"
    /\ projects["foo"] # Nothing
    /\ InitFile \in DOMAIN projects["foo"][1].substitutions
    /\ ScopesOf("foo", InitFile, disk) = {1, 2}
    /\ FoldersOf("foo")[1].patterns # FoldersOf("foo")[2].patterns
    /\ disk[InitFile] =
           Some(_substitute_version_in_text(
                    last.version, projects["foo"][1].substitutions[InitFile],
                    FoldersOf("foo")[1].patterns))
    /\ disk[InitFile] #
           Some(_substitute_version_in_text(
                    last.version, projects["foo"][1].substitutions[InitFile],
                    FoldersOf("foo")[2].patterns))

(***************************************************************************)
(* C9: the initial-content step of apply                                   *)
(***************************************************************************)
\* C9 as stated: the step writes the dedented initial content to an extra
\* file without content and leaves an extra file with content as it is
C9_AsStated ==
    [][last'.op = "apply" =>
        \A r \in ExtraInitial(last'.name) :
            LeftAs(last'.name, <<last'.name, r>>,
                   IF disk[<<last'.name, r>>] = Nothing THEN InitialOf(last'.name, r)
                   ELSE disk[<<last'.name, r>>][1],
                   last'.version)]_vars

\* C9 (amended): in every apply call, the step writes the dedented initial
\* content to each configured extra file that has initial-content, whether or
\* not the file has content
C9_InitialContentWritten ==
    [][last'.op = "apply" =>
        \A r \in ExtraInitial(last'.name) :
            LeftAs(last'.name, <<last'.name, r>>, InitialOf(last'.name, r),
                   last'.version)]_vars

\* an extra file that had content before the apply was substituted from its
\* initial-content
C9_Witness ==
    /\ last.op = "apply"
    /\ last.name = "foo"
    /\ "pkg/_version.py" \in ExtraInitial("foo")
    /\ base["foo"].fs["pkg/_version.py"] # Nothing
    /\ base["foo"].fs["pkg/_version.py"] # Some(InitialOf("foo", "pkg/_version.py"))
    /\ projects["foo"] # Nothing
    /\ VersionFile \in DOMAIN projects["foo"][1].substitutions
    /\ projects["foo"][1].substitutions[VersionFile] = InitialOf("foo", "pkg/_version.py")

ConfiguredFor(i) ==
    LET top == IF p_user.patterns = Nothing THEN DefaultPatterns
               ELSE p_user.patterns[1]
    IN IF i = 1 \/ p_user.folders[i - 1].patterns = Nothing THEN top
       ELSE p_user.folders[i - 1].patterns[1]

\* a bare string, a table without mode, or a table with one of the two modes
ValidMode(e) == e.kind = "string" \/ e.mode \in {"missing", "str", "tuple"}

\* the mode the entry is to be applied in: string mode unless a mode is given
StatedMode(e) == IF e.kind = "string" \/ e.mode = "missing" THEN "str" ELSE e.mode

StatedPatterns(l) ==
    [k \in 1..Len(l) |-> [value |-> l[k].value, mode |-> StatedMode(l[k])]]

\* C11 as stated: in the top-level list and in a folder's list alike, a table
\* without mode is applied like a bare string, and the invalid-mode error is
\* raised only for a mode other than the string and tuple modes
C11_AsStated ==
    p_pc = "done" =>
        \A i \in 1..Len(p_result) :
            IF \A k \in 1..Len(ConfiguredFor(i)) : ValidMode(ConfiguredFor(i)[k])
            THEN p_result[i] =
                     _substitute_version_in_text(
                         ModeVersion, ModeContent, StatedPatterns(ConfiguredFor(i)))
            ELSE p_result[i] = Raise

====
